---- MODULE Spec2Model ----
(***************************************************************************)
(* Model of the post page of wooddashboard: reading a post, loading its    *)
(* optional components module, splitting the front matter, extracting the  *)
(* table-of-contents headings and rendering the in-body heading anchors;   *)
(* of the home page (getPosts, generateStaticParams), of Link and of       *)
(* AutoRefresh.                                                            *)
(*                                                                         *)
(* Strings are sequences of one-character strings, so that the regular     *)
(* expressions of the source are computed character by character.          *)
(***************************************************************************)
EXTENDS Integers, Sequences, FiniteSets, TLC

VARIABLES hLines, hContent, hpc, hHeadings, hBody,
          store, modules, overnight, defaultComponents, renders,
          dirents, listing, staticParams,
          linkProps, anchor, click,
          env, exported, mounted, ws, messages, reloads

hvars == <<hLines, hContent, hpc, hHeadings, hBody>>
rvars == <<store, modules, overnight, defaultComponents, renders>>
pvars == <<dirents, listing, staticParams>>
lvars == <<linkProps, anchor, click>>
avars == <<env, exported, mounted, ws, messages, reloads>>
vars == <<hLines, hContent, hpc, hHeadings, hBody,
          store, modules, overnight, defaultComponents, renders,
          dirents, listing, staticParams,
          linkProps, anchor, click,
          env, exported, mounted, ws, messages, reloads>>

(***************************************************************************)
(* Bounds.                                                                 *)
(***************************************************************************)
MaxLines == 2
MaxRenders == 2
MaxEntries == 3
MaxMessages == 3

(***************************************************************************)
(* Characters.                                                             *)
(***************************************************************************)
\* the backtick character, which a TLA+ string cannot hold
Backtick == "U+0060"

LowerLetters ==
    {"a", "b", "c", "d", "e", "f", "g", "h", "i", "j", "k", "l", "m",
     "n", "o", "p", "q", "r", "s", "t", "u", "v", "w", "x", "y", "z"}
Digits == {"0", "1", "2", "3", "4", "5", "6", "7", "8", "9"}

\* String.prototype.toLowerCase, on the letters the model uses.
toLowerCase1(c) ==
    CASE c = "I" -> "i"
      [] c = "A" -> "a"
      [] c = "O" -> "o"
      [] OTHER -> c

toLowerCase(s) == [i \in 1..Len(s) |-> toLowerCase1(s[i])]

\* the character class [a-z0-9]
IsAlnum(c) == c \in LowerLetters \cup Digits

\* s.replace(/[^a-z0-9]+/g, '-'): every maximal run of characters outside
\* [a-z0-9] becomes one '-'.
RECURSIVE ReplaceNonAlnumRuns(_, _, _)
ReplaceNonAlnumRuns(s, i, inRun) ==
    IF i > Len(s) THEN <<>>
    ELSE IF IsAlnum(s[i]) THEN <<s[i]>> \o ReplaceNonAlnumRuns(s, i + 1, FALSE)
    ELSE IF inRun THEN ReplaceNonAlnumRuns(s, i + 1, TRUE)
    ELSE <<"-">> \o ReplaceNonAlnumRuns(s, i + 1, TRUE)

\* text.toLowerCase().replace(/\s+/g, '-'): only runs of blanks become '-'
RECURSIVE ReplaceBlankRuns(_, _, _)
ReplaceBlankRuns(s, i, inRun) ==
    IF i > Len(s) THEN <<>>
    ELSE IF s[i] \notin {" ", "\t"} THEN <<s[i]>> \o ReplaceBlankRuns(s, i + 1, FALSE)
    ELSE IF inRun THEN ReplaceBlankRuns(s, i + 1, TRUE)
    ELSE <<"-">> \o ReplaceBlankRuns(s, i + 1, TRUE)

SlugifyBlanksOnly(text) == ReplaceBlankRuns(toLowerCase(text), 1, FALSE)

\* text.toLowerCase().replace(/[^a-z0-9]+/g, '-')
Slugify(text) == ReplaceNonAlnumRuns(toLowerCase(text), 1, FALSE)

\* content.split('\n')
RECURSIVE SplitLines(_)
SplitLines(s) ==
    IF \E i \in 1..Len(s) : s[i] = "\n"
    THEN LET i == CHOOSE k \in 1..Len(s) :
                    s[k] = "\n" /\ \A j \in 1..(k - 1) : s[j] # "\n"
         IN <<SubSeq(s, 1, i - 1)>> \o SplitLines(SubSeq(s, i + 1, Len(s)))
    ELSE <<s>>

\* lines.join('\n'): how a body is laid out in the file
RECURSIVE JoinLines(_)
JoinLines(ls) ==
    IF Len(ls) = 0 THEN <<>>
    ELSE IF Len(ls) = 1 THEN ls[1]
    ELSE ls[1] \o <<"\n">> \o JoinLines(Tail(ls))

(***************************************************************************)
(* getHeadings                                                             *)
(***************************************************************************)
\* n '#' characters followed by one space at the start of the line
HashesThenSpace(line, n) ==
    /\ Len(line) >= n + 1
    /\ \A k \in 1..n : line[k] = "#"
    /\ line[n + 1] = " "

\* line.match(/^(#{2,3}) /)[1].length, 0 when the line does not match;
\* the quantifier is greedy, so three '#' are tried before two.
MatchDepthMissingUpperBound(line) ==
    IF \E n \in 2..Len(line) : HashesThenSpace(line, n)
    THEN CHOOSE n \in 2..Len(line) : HashesThenSpace(line, n)
    ELSE 0

MatchDepth(line) ==
    IF HashesThenSpace(line, 3) THEN 3
    ELSE IF HashesThenSpace(line, 2) THEN 2
    ELSE 0

\* the record built for one matching line, with an id made unique by a
\* counter that all renders share
HeadingRecordSharedCounter(line) ==
    LET level == MatchDepth(line)
        text == SubSeq(line, level + 2, Len(line))
        n == Cardinality({q \in DOMAIN renders : renders[q].pc = "done"})
    IN [text |-> text,
        id |-> Slugify(text) \o <<"-", <<"0", "1", "2", "3", "4", "5", "6", "7", "8", "9">>[n + 1]>>,
        depth |-> level]

\* the record built for one matching line
HeadingRecord(line) ==
    LET level == MatchDepth(line)
        text == SubSeq(line, level + 2, Len(line))
    IN [text |-> text, id |-> Slugify(text), depth |-> level]

RECURSIVE FilterHeadingLines(_)
FilterHeadingLines(ls) ==
    IF Len(ls) = 0 THEN <<>>
    ELSE IF MatchDepth(ls[1]) # 0
         THEN <<ls[1]>> \o FilterHeadingLines(Tail(ls))
         ELSE FilterHeadingLines(Tail(ls))

getHeadings(content) ==
    LET headingLines == FilterHeadingLines(SplitLines(content))
    IN [i \in 1..Len(headingLines) |-> HeadingRecord(headingLines[i])]

(***************************************************************************)
(* The in-body headings: what the MDX compilation of the body hands to the *)
(* h1..h4 components, and CustomHeading.                                   *)
(***************************************************************************)
IsSpace(c) == c \in {" ", "\t"}

RECURSIVE TrimStart(_)
TrimStart(s) ==
    IF Len(s) > 0 /\ IsSpace(s[1]) THEN TrimStart(Tail(s)) ELSE s

RECURSIVE TrimEnd(_)
TrimEnd(s) ==
    IF Len(s) > 0 /\ IsSpace(s[Len(s)])
    THEN TrimEnd(SubSeq(s, 1, Len(s) - 1)) ELSE s

Trim(s) == TrimEnd(TrimStart(s))

\* number of '#' characters at the start of the line
RECURSIVE LeadingHashes(_)
LeadingHashes(line) ==
    IF Len(line) > 0 /\ line[1] = "#" THEN 1 + LeadingHashes(Tail(line)) ELSE 0

\* Markdown ATX heading: one to six '#', then a space or the end of the
\* line; 0 when the line is no heading.
AtxDepth(line) ==
    LET n == LeadingHashes(line)
    IN IF n \in 1..6 /\ (Len(line) = n \/ IsSpace(line[n + 1])) THEN n ELSE 0

IsFence(line) ==
    Len(line) >= 3 /\ line[1] = Backtick /\ line[2] = Backtick /\ line[3] = Backtick

\* remark-smartypants on a text run: "--" to an em dash, "..." to an
\* ellipsis, a straight apostrophe to a curly one.
RECURSIVE Smartypants(_, _)
Smartypants(s, i) ==
    IF i > Len(s) THEN <<>>
    ELSE IF i + 2 <= Len(s) /\ s[i] = "." /\ s[i + 1] = "." /\ s[i + 2] = "."
         THEN <<"U+2026">> \o Smartypants(s, i + 3)
    ELSE IF i + 1 <= Len(s) /\ s[i] = "-" /\ s[i + 1] = "-"
         THEN <<"U+2014">> \o Smartypants(s, i + 2)
    ELSE IF s[i] = "'"
         THEN <<IF i = 1 \/ IsSpace(s[i - 1]) THEN "U+2018" ELSE "U+2019">>
              \o Smartypants(s, i + 1)
    ELSE <<s[i]>> \o Smartypants(s, i + 1)

\* position of the first backtick at or after i, 0 when there is none
FirstBacktick(s, i) ==
    IF \E k \in i..Len(s) : s[k] = Backtick
    THEN CHOOSE k \in i..Len(s) :
            s[k] = Backtick /\ \A j \in i..(k - 1) : s[j] # Backtick
    ELSE 0

TextNode(chars) == [kind |-> "text", tag |-> "", chars |-> chars]
ElementNode(tag, chars) == [kind |-> "element", tag |-> tag, chars |-> chars]

\* The inline content of a heading as the children of its element: text
\* runs are strings, a code span is an element.
RECURSIVE InlineChildren(_)
InlineChildren(s) ==
    LET open == FirstBacktick(s, 1)
        close == IF open = 0 THEN 0 ELSE FirstBacktick(s, open + 1)
    IN IF Len(s) = 0 THEN <<>>
       ELSE IF close = 0 THEN <<TextNode(Smartypants(s, 1))>>
       ELSE (IF open > 1
             THEN <<TextNode(Smartypants(SubSeq(s, 1, open - 1), 1))>>
             ELSE <<>>)
            \o <<ElementNode("code", SubSeq(s, open + 1, close - 1))>>
            \o InlineChildren(SubSeq(s, close + 1, Len(s)))

ObjectObject ==
    <<"[", "o", "b", "j", "e", "c", "t", " ", "O", "b", "j", "e", "c", "t", "]">>

\* toString of one child: a string is itself, a React element is an object
ChildToString(node) ==
    IF node.kind = "text" THEN node.chars ELSE ObjectObject

\* children?.toString() || '': no child gives '', one child its own
\* toString, several children an array whose toString joins with ','
RECURSIVE ChildrenToString(_)
ChildrenToString(children) ==
    IF Len(children) = 0 THEN <<>>
    ELSE IF Len(children) = 1 THEN ChildToString(children[1])
    ELSE ChildToString(children[1]) \o <<",">> \o ChildrenToString(Tail(children))

\* the id attribute CustomHeading puts on the heading element
CustomHeadingId(children) ==
    LET text == ChildrenToString(children)
    IN Slugify(text)

CustomHeading(level, children) ==
    [level |-> level, id |-> CustomHeadingId(children)]

\* The heading elements of the rendered body, in document order: every ATX
\* heading of depth 1 to 4 outside a fenced code block is rendered by the
\* h1..h4 entry of components.
RECURSIVE RenderHeadings(_, _)
RenderHeadings(ls, inFence) ==
    IF Len(ls) = 0 THEN <<>>
    ELSE IF IsFence(ls[1]) THEN RenderHeadings(Tail(ls), ~inFence)
    ELSE IF ~inFence /\ AtxDepth(ls[1]) \in 1..4
         THEN <<CustomHeading(AtxDepth(ls[1]),
                    InlineChildren(Trim(SubSeq(ls[1], AtxDepth(ls[1]) + 1, Len(ls[1])))))>>
              \o RenderHeadings(Tail(ls), inFence)
    ELSE RenderHeadings(Tail(ls), inFence)

BodyHeadings(content) == RenderHeadings(SplitLines(content), FALSE)

(***************************************************************************)
(* Heading extraction on its own: the body is drawn from bounded sets of   *)
(* lines, getHeadings builds the table of contents and the body is         *)
(* rendered.                                                               *)
(***************************************************************************)
SampleLines ==
    { <<"#", "#", " ", "I", "n", "t", "r", "o">>,
      <<"#", "#", "#", " ", "i", "n", "t", "r", "o">>,
      <<"#", "#", " ", "!", "?">>,
      <<"#", "#", "#", " ", "?", "?">>,
      <<"#", " ", "A">>,
      <<"#", "#", "#", "#", " ", "a", " ", "b">>,
      <<"#", "#", " ", "a", " ", Backtick, "b", Backtick>>,
      <<"#", "#", " ", "i", "t", "'", "s", " ", "-", "-", " ", "o", "n", ".", ".", ".">>,
      <<"#", "#", "a">>,
      <<"#", "#", " ", " ", "I", "n", "t", "r", "o", " ">>,
      <<"a", " ", "b">>,
      <<Backtick, Backtick, Backtick>>,
      <<>> }

Bodies == UNION {[1..n -> SampleLines] : n \in 0..MaxLines}

HInit ==
    /\ hLines \in Bodies
    /\ hContent = JoinLines(hLines)
    /\ hpc = "start"
    /\ hHeadings = <<>>
    /\ hBody = <<>>

\* const headings = await getHeadings(content)
HGetHeadings ==
    /\ hpc = "start"
    /\ hHeadings' = getHeadings(hContent)
    /\ hpc' = "toc"
    /\ UNCHANGED <<hLines, hContent, hBody>>

\* <MDXRemote source={content} components={components} />
HRenderBody ==
    /\ hpc = "toc"
    /\ hBody' = BodyHeadings(hContent)
    /\ hpc' = "done"
    /\ UNCHANGED <<hLines, hContent, hHeadings>>

(***************************************************************************)
(* The render request: postPage.                                           *)
(***************************************************************************)
Renders == 1..MaxRenders
Slugs == {"post", "other", "missing"}

Unset == [unset |-> TRUE]
Undefined == <<"undefined">>
NoFile == [exists |-> FALSE]
EmptyMap == [k \in {} |-> ""]

File(data, body) == [exists |-> TRUE, data |-> data, body |-> body]

IsoDate == <<"2", "0", "2", "4", "-", "0", "6", "-", "2", "8">>
BadDate == <<"s", "o", "o", "n">>
Title == <<"I", "n", "t", "r", "o">>

\* the front matters a post can carry
DataSets ==
    { [title |-> Title, date |-> IsoDate],
      [date |-> IsoDate],
      [title |-> Title],
      [title |-> Title, date |-> BadDate] }

RenderBodies ==
    { <<>>,
      <<"#", "#", " ", "I", "n", "t", "r", "o", "\n",
        "#", "#", " ", "I", "n", "t", "r", "o">>,
      <<"#", "#", "#", " ", "a", " ", Backtick, "b", Backtick, "\n", "a", " ", "b">>,
      <<Backtick, Backtick, Backtick, "j", "s", " ", "e", "v", "a", "l", "\n",
        "1", "\n",
        Backtick, Backtick, Backtick>>,
      <<"#", "#", " ", "i", "t", "'", "s", "\n",
        Backtick, Backtick, Backtick, "j", "s", " ", "e", "v", "a", "l", "\n",
        "!", "\n",
        Backtick, Backtick, Backtick, "\n",
        Backtick, Backtick, Backtick, "j", "s", "\n",
        "1", "\n",
        Backtick, Backtick, Backtick>>,
      <<Backtick, Backtick, Backtick, "m", "a", "t", "h", "\n",
        "1", "\n",
        Backtick, Backtick, Backtick, "\n",
        "a", " ", "b">> }

Err(code) == [truthy |-> TRUE, code |-> code]
\* a module that throws null while it is evaluated
NullThrown == [truthy |-> FALSE, code |-> "undefined"]

Module(exports) == [kind |-> "module", exports |-> exports]
Throws(e) == [kind |-> "throw", e |-> e]

\* what import(`../../public/${slug}/components.js`) can do
ImportOutcomes ==
    { Throws(Err("MODULE_NOT_FOUND")),
      Throws(Err("EACCES")),
      Throws(Err("undefined")),
      Throws(NullThrown),
      Module(EmptyMap),
      Module("a" :> "post.a"),
      Module("h2" :> "post.h2" @@ "Chart" :> "post.Chart") }

\* readFile(filename, 'utf8')
readFileSwallowingMissing(st, slug) ==
    IF st[slug].exists THEN [ok |-> TRUE, value |-> st[slug], e |-> Unset]
    ELSE [ok |-> TRUE, value |-> File(EmptyMap, <<>>), e |-> Unset]

readFile(st, slug) ==
    IF st[slug].exists THEN [ok |-> TRUE, value |-> st[slug], e |-> Unset]
    ELSE [ok |-> FALSE, value |-> Unset, e |-> Err("ENOENT")]

\* the catch clause: if (!e || e.code !== 'MODULE_NOT_FOUND') throw e
RethrowsAlways(e) == TRUE

\* if (e && e.code && e.code !== 'MODULE_NOT_FOUND') throw e
RethrowsOnlyOtherCodes(e) ==
    e.truthy /\ e.code \notin {"MODULE_NOT_FOUND", "undefined"}

Rethrows(e) == (~e.truthy) \/ e.code # "MODULE_NOT_FOUND"

\* matter(file)
matter(file) == [content |-> file.body, data |-> file.data]

Get(data, key) == IF key \in DOMAIN data THEN data[key] ELSE Undefined

\* the components object: the defaults, then ...postComponents
DefaultComponents ==
    "a" :> "Link" @@ "h1" :> "CustomHeading1" @@ "h2" :> "CustomHeading2"
    @@ "h3" :> "CustomHeading3" @@ "h4" :> "CustomHeading4"

componentsDefaultsLast(postComponents) ==
    [k \in DOMAIN DefaultComponents \cup DOMAIN postComponents |->
        IF k \in DOMAIN DefaultComponents THEN DefaultComponents[k]
        ELSE postComponents[k]]

\* a: Link and h1..h4: CustomHeading are bindings of the page module, read
\* by every render; the object literal is a fresh object for each render
components(postComponents) ==
    [k \in DOMAIN defaultComponents["toc"] \cup DOMAIN postComponents |->
        IF k \in DOMAIN postComponents THEN postComponents[k]
        ELSE defaultComponents["toc"][k]]

IsDigits(s, from, to) == \A i \in from..to : s[i] \in Digits

DigitValue(c) == CHOOSE n \in 0..9 : <<"0", "1", "2", "3", "4", "5", "6", "7", "8", "9">>[n + 1] = c

\* new Date(value): the time value is NaN unless value is a date string
\* YYYY-MM-DD with a month 01..12 and a day 01..31
IsValidDate(value) ==
    /\ value # Undefined
    /\ Len(value) = 10
    /\ IsDigits(value, 1, 4) /\ value[5] = "-"
    /\ IsDigits(value, 6, 7) /\ value[8] = "-"
    /\ IsDigits(value, 9, 10)
    /\ 10 * DigitValue(value[6]) + DigitValue(value[7]) \in 1..12
    /\ 10 * DigitValue(value[9]) + DigitValue(value[10]) \in 1..31

InvalidDateText == <<"Invalid Date">>

\* new Date(value).toLocaleDateString('zh-CN', {day: '2-digit',
\* month: '2-digit', year: 'numeric'}): an invalid date formats as the
\* text "Invalid Date", nothing is thrown
toLocaleDateString(value) ==
    IF IsValidDate(value)
    THEN SubSeq(value, 1, 4) \o <<"/">> \o SubSeq(value, 6, 7) \o <<"/">>
         \o SubSeq(value, 9, 10)
    ELSE InvalidDateText

(***************************************************************************)
(* The body tree and the transform stages MDXRemote is configured with.    *)
(***************************************************************************)
\* the two post pages of the repository: the one with the table of
\* contents (getHeadings, CustomHeading) and the one with live code blocks
\* (remarkMdxEvalCodeBlock)
Pages == {"toc", "eval"}

Node(kind, depth, lang, meta, value, children) ==
    [kind |-> kind, depth |-> depth, lang |-> lang, meta |-> meta,
     value |-> value, children |-> children, marks |-> {}, background |-> ""]

\* position of the first space of s, 0 when there is none
FirstSpace(s) ==
    IF \E k \in 1..Len(s) : s[k] = " "
    THEN CHOOSE k \in 1..Len(s) : s[k] = " " /\ \A j \in 1..(k - 1) : s[j] # " "
    ELSE 0

\* the info string of a fence: the language, then the meta string
FenceLang(info) ==
    IF FirstSpace(info) = 0 THEN info ELSE SubSeq(info, 1, FirstSpace(info) - 1)

FenceMeta(info) ==
    IF FirstSpace(info) = 0 THEN <<>>
    ELSE SubSeq(info, FirstSpace(info) + 1, Len(info))

\* the inline content of a heading or paragraph before any transform
RECURSIVE RawInlineChildren(_)
RawInlineChildren(s) ==
    LET open == FirstBacktick(s, 1)
        close == IF open = 0 THEN 0 ELSE FirstBacktick(s, open + 1)
    IN IF Len(s) = 0 THEN <<>>
       ELSE IF close = 0 THEN <<TextNode(s)>>
       ELSE (IF open > 1 THEN <<TextNode(SubSeq(s, 1, open - 1))>> ELSE <<>>)
            \o <<ElementNode("code", SubSeq(s, open + 1, close - 1))>>
            \o RawInlineChildren(SubSeq(s, close + 1, Len(s)))

\* The block nodes of the body: a fenced code block with its language and
\* meta string, a heading, or a paragraph for a non-blank line.
RECURSIVE ParseBlocks(_, _, _, _)
ParseBlocks(ls, inCode, info, codeLines) ==
    IF Len(ls) = 0
    THEN IF inCode
         THEN <<Node("code", 0, FenceLang(info), FenceMeta(info), JoinLines(codeLines), <<>>)>>
         ELSE <<>>
    ELSE IF inCode
    THEN IF IsFence(ls[1])
         THEN <<Node("code", 0, FenceLang(info), FenceMeta(info), JoinLines(codeLines), <<>>)>>
              \o ParseBlocks(Tail(ls), FALSE, <<>>, <<>>)
         ELSE ParseBlocks(Tail(ls), TRUE, info, Append(codeLines, ls[1]))
    ELSE IF IsFence(ls[1])
    THEN ParseBlocks(Tail(ls), TRUE, SubSeq(ls[1], 4, Len(ls[1])), <<>>)
    ELSE IF AtxDepth(ls[1]) # 0
    THEN LET text == Trim(SubSeq(ls[1], AtxDepth(ls[1]) + 1, Len(ls[1])))
         IN <<Node("heading", AtxDepth(ls[1]), <<>>, <<>>, text, RawInlineChildren(text))>>
            \o ParseBlocks(Tail(ls), FALSE, <<>>, <<>>)
    ELSE IF Trim(ls[1]) = <<>>
    THEN ParseBlocks(Tail(ls), FALSE, <<>>, <<>>)
    ELSE <<Node("paragraph", 0, <<>>, <<>>, ls[1], RawInlineChildren(ls[1]))>>
         \o ParseBlocks(Tail(ls), FALSE, <<>>, <<>>)

ParseBody(content) == ParseBlocks(SplitLines(content), FALSE, <<>>, <<>>)

\* remark-smartypants on the children of one node: text runs are
\* educated, code spans are left alone
Educate(children) ==
    [i \in DOMAIN children |->
        IF children[i].kind = "text"
        THEN TextNode(Smartypants(children[i].chars, 1))
        ELSE children[i]]

\* stage: typographic normalization (remarkSmartpants)
remarkSmartpants(tree) ==
    [i \in DOMAIN tree |->
        IF tree[i].kind \in {"heading", "paragraph"}
        THEN [tree[i] EXCEPT !.children = Educate(@)]
        ELSE tree[i]]

\* a live block whose source is the lone operator '!' does not evaluate
EvalThrows(source) == source = <<"!">>

IsLive(node) == node.kind = "code" /\ node.meta = <<"e", "v", "a", "l">>

\* stage: code evaluation (remarkMdxEvalCodeBlock): a live block is replaced
\* by its evaluated output; when the evaluation throws, the block stays the
\* static code block and gets an error marker
remarkMdxEvalCodeBlockErrorSpreads(tree) ==
    IF \E i \in DOMAIN tree : IsLive(tree[i]) /\ EvalThrows(tree[i].value)
    THEN [i \in DOMAIN tree |-> [tree[i] EXCEPT !.marks = @ \cup {"error"}]]
    ELSE [i \in DOMAIN tree |->
            IF IsLive(tree[i])
            THEN [tree[i] EXCEPT !.kind = "expression", !.marks = @ \cup {"evaluated"}]
            ELSE tree[i]]

remarkMdxEvalCodeBlock(tree) ==
    [i \in DOMAIN tree |->
        IF IsLive(tree[i])
        THEN IF EvalThrows(tree[i].value)
             THEN [tree[i] EXCEPT !.marks = @ \cup {"error"}]
             ELSE [tree[i] EXCEPT !.kind = "expression", !.marks = @ \cup {"evaluated"}]
        ELSE tree[i]]

\* stage: math rendering (rehypeKatex) of the blocks in the math language
rehypeKatex(tree) ==
    [i \in DOMAIN tree |->
        IF tree[i].kind = "code" /\ tree[i].lang = <<"m", "a", "t", "h">>
        THEN [tree[i] EXCEPT !.kind = "math", !.marks = @ \cup {"katex"}]
        ELSE tree[i]]

\* stage: code highlighting (rehypePrettyCode with the overnight theme)
rehypePrettyCode(tree, theme) ==
    [i \in DOMAIN tree |->
        IF tree[i].kind = "code"
        THEN [tree[i] EXCEPT !.marks = @ \cup {"highlighted"},
                             !.background = theme.editorBackground]
        ELSE tree[i]]

\* remarkPlugins and rehypePlugins of mdxOptions, in the order written
remarkPlugins(page) ==
    IF page = "eval" THEN <<"remarkSmartpants", "remarkMdxEvalCodeBlock">>
    ELSE <<"remarkSmartpants">>

\* the two rehype plugins written in a different order on each page
rehypePluginsOrderByPage(page) ==
    IF page = "toc" THEN <<"rehypePrettyCode", "rehypeKatex">>
    ELSE <<"rehypeKatex", "rehypePrettyCode">>

rehypePlugins(page) == <<"rehypeKatex", "rehypePrettyCode">>

\* the remark plugins transform the Markdown tree, the rehype plugins the
\* HTML tree made from it: all remark plugins run before any rehype plugin
PluginsRehypeFirst(page) == rehypePlugins(page) \o remarkPlugins(page)

Plugins(page) == remarkPlugins(page) \o rehypePlugins(page)

ApplyStage(stage, tree, theme) ==
    CASE stage = "remarkSmartpants" -> remarkSmartpants(tree)
      [] stage = "remarkMdxEvalCodeBlock" -> remarkMdxEvalCodeBlock(tree)
      [] stage = "rehypeKatex" -> rehypeKatex(tree)
      [] stage = "rehypePrettyCode" -> rehypePrettyCode(tree, theme)

\* the stages in order, each with the tree it received and the tree it
\* returned
RECURSIVE RunPipeline(_, _, _)
RunPipeline(plugins, tree, theme) ==
    IF Len(plugins) = 0 THEN <<>>
    ELSE LET out == ApplyStage(plugins[1], tree, theme)
         IN <<[stage |-> plugins[1], input |-> tree, output |-> out]>>
            \o RunPipeline(Tail(plugins), out, theme)

\* the tree MDXRemote renders
FinalTree(parsed, ran) ==
    IF Len(ran) = 0 THEN parsed ELSE ran[Len(ran)].output

\* overnight.colors['editor.background'] = 'var(--code-bg)', done once when
\* the page module is loaded
OvernightAtLoad == [editorBackground |-> "var(--code-bg)"]

\* { a: Link, ...postComponents }: the components of the page with live
\* code blocks
LinkOnlyComponents == "a" :> "Link"

componentsLinkOnly(postComponents) ==
    [k \in DOMAIN defaultComponents["eval"] \cup DOMAIN postComponents |->
        IF k \in DOMAIN postComponents THEN postComponents[k]
        ELSE defaultComponents["eval"][k]]

Defaults(page) ==
    IF page = "toc" THEN DefaultComponents ELSE LinkOnlyComponents

\* the default bindings once the page modules are loaded
DefaultComponentsAtLoad == [page \in Pages |-> Defaults(page)]

IdleRender ==
    [pc |-> "idle", slug |-> "", page |-> "", file |-> Unset,
     postComponents |-> Unset,
     content |-> Unset, data |-> Unset, headings |-> Unset,
     components |-> Unset, title |-> Unset, date |-> Unset, body |-> Unset,
     parsed |-> Unset, ran |-> Unset, tree |-> Unset,
     metadata |-> Unset,
     error |-> Unset]

\* the posts the render is tried on: every body under a complete front
\* matter, and every front matter over an empty body
PostFiles ==
    {File([title |-> Title, date |-> IsoDate], b) : b \in RenderBodies}
    \cup {File(d, <<>>) : d \in DataSets}

RInit ==
    /\ \E f \in PostFiles :
          store = [s \in Slugs |->
                      IF s = "post" THEN f
                      ELSE IF s = "other"
                      THEN File([title |-> Title, date |-> IsoDate], <<"a", " ", "b">>)
                      ELSE NoFile]
    /\ \E m \in ImportOutcomes :
          modules = [s \in Slugs |->
                        IF s = "post" THEN m
                        ELSE IF s = "other" THEN Module("a" :> "other.a")
                        ELSE Throws(Err("MODULE_NOT_FOUND"))]
    /\ overnight = OvernightAtLoad
    /\ defaultComponents = DefaultComponentsAtLoad
    /\ renders = [r \in Renders |-> IdleRender]

\* the page is requested for a slug
Request(r) ==
    /\ renders[r].pc = "idle"
    /\ \E slug \in DOMAIN store, page \in Pages :
          renders' = [renders EXCEPT ![r].pc = "reading", ![r].slug = slug,
                                     ![r].page = page]
    /\ UNCHANGED <<store, modules, overnight, defaultComponents>>

\* const file = await readFile(filename, 'utf8')
ReadFile(r) ==
    /\ renders[r].pc = "reading"
    /\ LET res == readFile(store, renders[r].slug)
       IN renders' =
            IF res.ok
            THEN [renders EXCEPT ![r].pc = "importing", ![r].file = res.value]
            ELSE [renders EXCEPT ![r].pc = "failed", ![r].error = res.e]
    /\ UNCHANGED <<store, modules, overnight, defaultComponents>>

\* the same with postComponents declared at module level, shared by all
\* renders: a failed import leaves every render with {}
ImportComponentsSharedVariable(r) ==
    /\ renders[r].pc = "importing"
    /\ LET res == modules[renders[r].slug]
       IN renders' =
            IF res.kind = "module"
            THEN [renders EXCEPT ![r].pc = "imported",
                                 ![r].postComponents = res.exports]
            ELSE IF Rethrows(res.e)
            THEN [q \in Renders |->
                    IF q = r
                    THEN [renders[q] EXCEPT !.pc = "failed",
                                            !.postComponents = EmptyMap,
                                            !.error = res.e]
                    ELSE IF renders[q].postComponents = Unset THEN renders[q]
                    ELSE [renders[q] EXCEPT !.postComponents = EmptyMap]]
            ELSE [renders EXCEPT ![r].pc = "imported",
                                 ![r].postComponents = EmptyMap]
    /\ UNCHANGED <<store, modules, overnight, defaultComponents>>

\* let postComponents = {}; try { postComponents = await import(...) }
\* catch (e) { if (!e || e.code !== 'MODULE_NOT_FOUND') throw e }
ImportComponents(r) ==
    /\ renders[r].pc = "importing"
    /\ LET res == modules[renders[r].slug]
       IN renders' =
            IF res.kind = "module"
            THEN [renders EXCEPT ![r].pc = "imported",
                                 ![r].postComponents = res.exports]
            ELSE IF Rethrows(res.e)
            THEN [renders EXCEPT ![r].pc = "failed",
                                 ![r].postComponents = EmptyMap,
                                 ![r].error = res.e]
            ELSE [renders EXCEPT ![r].pc = "imported",
                                 ![r].postComponents = EmptyMap]
    /\ UNCHANGED <<store, modules, overnight, defaultComponents>>

\* const { content, data } = matter(file);
\* const headings = await getHeadings(content)
SplitAndExtract(r) ==
    /\ renders[r].pc = "imported"
    /\ LET m == matter(renders[r].file)
       IN renders' = [renders EXCEPT ![r].pc = "extracted",
                                     ![r].content = m.content,
                                     ![r].data = m.data,
                                     ![r].headings =
                                        IF renders[r].page = "toc"
                                        THEN getHeadings(m.content)
                                        ELSE Unset]
    /\ UNCHANGED <<store, modules, overnight, defaultComponents>>

\* the same with the overrides copied into the shared defaults:
\* Object.assign(defaults, postComponents)
AssembleIntoSharedDefaults(r) ==
    /\ renders[r].pc = "extracted"
    /\ LET merged == IF renders[r].page = "toc"
                     THEN components(renders[r].postComponents)
                     ELSE componentsLinkOnly(renders[r].postComponents)
       IN /\ defaultComponents' =
                [defaultComponents EXCEPT ![renders[r].page] = merged]
          /\ renders' = [renders EXCEPT
                ![r].pc = "assembled",
                ![r].components = merged,
                ![r].title = Get(renders[r].data, "title"),
                ![r].date = toLocaleDateString(Get(renders[r].data, "date"))]
    /\ UNCHANGED <<store, modules, overnight>>

\* const components = {...}; return <div> ... {data.title} ...
\* {new Date(data.date).toLocaleDateString(...)} ... </div>
Assemble(r) ==
    /\ renders[r].pc = "extracted"
    /\ renders' = [renders EXCEPT
            ![r].pc = "assembled",
            ![r].components =
                IF renders[r].page = "toc"
                THEN components(renders[r].postComponents)
                ELSE componentsLinkOnly(renders[r].postComponents),
            ![r].title = Get(renders[r].data, "title"),
            ![r].date = toLocaleDateString(Get(renders[r].data, "date"))]
    /\ UNCHANGED <<store, modules, overnight, defaultComponents>>

\* <MDXRemote source={content} components={components} /> is rendered
RenderBody(r) ==
    /\ renders[r].pc = "assembled"
    /\ LET parsed == ParseBody(renders[r].content)
           ran == RunPipeline(Plugins(renders[r].page), parsed, overnight)
       IN renders' = [renders EXCEPT
              ![r].pc = "done",
              ![r].parsed = parsed,
              ![r].ran = ran,
              ![r].tree = FinalTree(parsed, ran),
              ![r].body = IF renders[r].page = "toc"
                          THEN BodyHeadings(renders[r].content)
                          ELSE <<>>]
    /\ UNCHANGED <<store, modules, overnight, defaultComponents>>

HIdle ==
    /\ hLines = <<>> /\ hContent = <<>> /\ hpc = "start"
    /\ hHeadings = <<>> /\ hBody = <<>>

RIdle ==
    /\ store = [s \in Slugs |-> NoFile]
    /\ modules = [s \in Slugs |-> Throws(Err("MODULE_NOT_FOUND"))]
    /\ overnight = OvernightAtLoad
    /\ defaultComponents = DefaultComponentsAtLoad
    /\ renders = [r \in Renders |-> IdleRender]

\* the home page, a link and the AutoRefresh wrapper before anything is
\* asked of them
PIdle ==
    /\ dirents = <<>>
    /\ listing = [pc |-> "start"]
    /\ staticParams = [page \in Pages |-> [pc |-> "start"]]

LIdle ==
    /\ linkProps = Unset /\ anchor = Unset /\ click = Unset

AIdle ==
    /\ env = "production" /\ exported = "children"
    /\ mounted = FALSE /\ ws = "none" /\ messages = <<>> /\ reloads = 0

Init == RInit /\ HIdle /\ PIdle /\ LIdle /\ AIdle

Next ==
    \/ \E r \in Renders : Request(r) /\ UNCHANGED <<hvars, pvars, lvars, avars>>
    \/ \E r \in Renders : ReadFile(r) /\ UNCHANGED <<hvars, pvars, lvars, avars>>
    \/ \E r \in Renders : ImportComponents(r) /\ UNCHANGED <<hvars, pvars, lvars, avars>>
    \/ \E r \in Renders : SplitAndExtract(r) /\ UNCHANGED <<hvars, pvars, lvars, avars>>
    \/ \E r \in Renders : Assemble(r) /\ UNCHANGED <<hvars, pvars, lvars, avars>>
    \/ \E r \in Renders : RenderBody(r) /\ UNCHANGED <<hvars, pvars, lvars, avars>>

Spec == Init /\ [][Next]_vars

InitHeadings == HInit /\ RIdle /\ PIdle /\ LIdle /\ AIdle

NextHeadings ==
    \/ HGetHeadings /\ UNCHANGED <<rvars, pvars, lvars, avars>>
    \/ HRenderBody /\ UNCHANGED <<rvars, pvars, lvars, avars>>

SpecHeadings == InitHeadings /\ [][NextHeadings]_vars

(***************************************************************************)
(* The document loader: the file name built from the identifier, and the   *)
(* file the file system opens for it.                                      *)
(***************************************************************************)
PublicSegment == <<"p", "u", "b", "l", "i", "c">>
IndexSegment == <<"i", "n", "d", "e", "x", ".", "m", "d">>

\* './public/' + params.slug + '/index.md'
Filename(slug) ==
    <<".", "/">> \o PublicSegment \o <<"/">> \o slug \o <<"/">> \o IndexSegment

\* the segments of a path, separated by '/'
RECURSIVE SplitPath(_)
SplitPath(s) ==
    IF \E i \in 1..Len(s) : s[i] = "/"
    THEN LET i == CHOOSE k \in 1..Len(s) :
                    s[k] = "/" /\ \A j \in 1..(k - 1) : s[j] # "/"
         IN <<SubSeq(s, 1, i - 1)>> \o SplitPath(SubSeq(s, i + 1, Len(s)))
    ELSE <<s>>

\* how the file system walks a relative path from the working directory:
\* '.' and empty segments stay in place, '..' goes to the parent
RECURSIVE Normalize(_, _)
Normalize(segs, acc) ==
    IF Len(segs) = 0 THEN acc
    ELSE IF segs[1] \in {<<>>, <<".">>} THEN Normalize(Tail(segs), acc)
    ELSE IF segs[1] = <<".", ".">>
         THEN Normalize(Tail(segs),
                        IF Len(acc) > 0 /\ acc[Len(acc)] # <<".", ".">>
                        THEN SubSeq(acc, 1, Len(acc) - 1)
                        ELSE Append(acc, <<".", ".">>))
    ELSE Normalize(Tail(segs), Append(acc, segs[1]))

ResolvePath(path) == Normalize(SplitPath(path), <<>>)

\* the path lies under ./public/
InsideRoot(resolved) == Len(resolved) >= 1 /\ resolved[1] = PublicSegment

ReadAt(disk, resolved) ==
    IF resolved \in DOMAIN disk THEN disk[resolved] ELSE NoFile

\* the files of the working directory: the post public/p/index.md, and
\* next to public/ the files index.md and s/index.md
Disk ==
    (<<PublicSegment, <<"p">>, IndexSegment>>
        :> File([title |-> Title, date |-> IsoDate], <<"a", " ", "b">>))
    @@ (<<IndexSegment>>
        :> File([title |-> <<".">>, date |-> IsoDate], <<"a", " ", "b">>))
    @@ (<<<<"s">>, IndexSegment>>
        :> File([title |-> <<"s">>, date |-> IsoDate], <<"a", " ", "b">>))

\* the identifiers requested: 'p', '..' and '../s'
LoaderSlugs == { <<"p">>, <<".", ".">>, <<".", ".", "/", "s">> }

InitLoader ==
    /\ store = [s \in LoaderSlugs |-> ReadAt(Disk, ResolvePath(Filename(s)))]
    /\ \E outside \in {Throws(Err("MODULE_NOT_FOUND")), Module("a" :> "s.a")} :
          modules = [s \in LoaderSlugs |->
                        IF s = <<"p">> THEN Module("a" :> "post.a")
                        ELSE IF s = <<".", ".", "/", "s">> THEN outside
                        ELSE Throws(Err("MODULE_NOT_FOUND"))]
    /\ overnight = OvernightAtLoad
    /\ defaultComponents = DefaultComponentsAtLoad
    /\ renders = [r \in Renders |-> IdleRender]
    /\ HIdle /\ PIdle /\ LIdle /\ AIdle

\* generateMetadata: const file = await readFile('./public/' + params.slug
\* + '/index.md', 'utf8'); let { data } = matter(file); return { title:
\* data.title + ' — wooddashboard', description: data.spoiler }
GenerateMetadata(r) ==
    /\ renders[r].pc # "idle"
    /\ renders[r].metadata = Unset
    /\ LET res == readFile(store, renders[r].slug)
       IN renders' =
            IF res.ok
            THEN [renders EXCEPT ![r].metadata =
                    [title |-> Get(matter(res.value).data, "title")
                                  \o <<" ", "U+2014", " ", "wooddashboard">>,
                     description |-> Get(matter(res.value).data, "spoiler")]]
            ELSE [renders EXCEPT ![r].metadata = [error |-> res.e]]
    /\ UNCHANGED <<store, modules, overnight, defaultComponents>>

NextLoader ==
    \/ Next
    \/ \E r \in Renders : GenerateMetadata(r) /\ UNCHANGED <<hvars, pvars, lvars, avars>>

SpecLoader == InitLoader /\ [][NextLoader]_vars

(***************************************************************************)
(* The home page: getPosts, and generateStaticParams of the two post       *)
(* pages, over the entries of ./public/.                                   *)
(***************************************************************************)
OlderDate == <<"2", "0", "2", "4", "-", "0", "1", "-", "0", "5">>

\* the name of the i-th entry readdir returns
NameOf(i) == <<"p", <<"0", "1", "2", "3", "4", "5", "6", "7", "8", "9">>[i + 1]>>

\* what an entry of ./public/ can be: a directory whose index.md has one of
\* the front matters, a directory without index.md, a plain file
EntryKinds ==
    {[isDirectory |-> TRUE, index |-> File(d, <<>>)] :
        d \in {[title |-> Title, date |-> IsoDate],
               [title |-> Title, date |-> OlderDate],
               [title |-> Title],
               [title |-> Title, date |-> BadDate]}}
    \cup {[isDirectory |-> TRUE, index |-> NoFile],
          [isDirectory |-> FALSE, index |-> NoFile]}

Entry(name, kind) ==
    [name |-> name, isDirectory |-> kind.isDirectory, index |-> kind.index]

\* entries.filter((entry) => entry.isDirectory())
RECURSIVE Directories(_)
Directories(entries) ==
    IF Len(entries) = 0 THEN <<>>
    ELSE IF entries[1].isDirectory
         THEN <<entries[1]>> \o Directories(Tail(entries))
         ELSE Directories(Tail(entries))

\* the directories whose index.md can be read
RECURSIVE WithIndex(_)
WithIndex(dirs) ==
    IF Len(dirs) = 0 THEN <<>>
    ELSE IF dirs[1].index.exists
         THEN <<dirs[1]>> \o WithIndex(Tail(dirs))
         ELSE WithIndex(Tail(dirs))

NamesOf(dirs) == [i \in DOMAIN dirs |-> dirs[i].name]

\* { slug, ...data }
Post(slug, data) ==
    [slug |-> IF "slug" \in DOMAIN data THEN data["slug"] ELSE slug,
     title |-> Get(data, "title"),
     date |-> Get(data, "date")]

NaN == [nan |-> TRUE, t |-> 0]

\* Date.parse(value): the time value of a date string, NaN for undefined
\* and for a text that is no date
DateParse(value) ==
    IF IsValidDate(value)
    THEN [nan |-> FALSE,
          t |-> 10000 * (1000 * DigitValue(value[1]) + 100 * DigitValue(value[2])
                         + 10 * DigitValue(value[3]) + DigitValue(value[4]))
                + 100 * (10 * DigitValue(value[6]) + DigitValue(value[7]))
                + 10 * DigitValue(value[9]) + DigitValue(value[10])]
    ELSE NaN

\* x < y on numbers: false when either is NaN
LessThan(x, y) == ~x.nan /\ ~y.nan /\ x.t < y.t

\* (a, b) => (Date.parse(a.date) < Date.parse(b.date) ? 1 : -1)
compare(a, b) ==
    IF LessThan(DateParse(a.date), DateParse(b.date)) THEN 1 ELSE -1

\* posts.sort(compare): the comparator never answers 0, and answers -1 both
\* ways round for equal dates and for NaN, so it is no consistent
\* comparison and the order is the engine's choice among the arrangements
\* in which the comparator puts every element before its right neighbour
SortOutcomes(posts) ==
    {[i \in DOMAIN posts |-> posts[f[i]]] :
        f \in {g \in Permutations(1..Len(posts)) :
                 \A i \in 1..(Len(posts) - 1) :
                     compare(posts[g[i]], posts[g[i + 1]]) < 0}}

InitPosts ==
    /\ \E n \in 0..MaxEntries :
          \E kinds \in [1..n -> EntryKinds] :
              dirents = [i \in 1..n |-> Entry(NameOf(i), kinds[i])]
    /\ listing = [pc |-> "start"]
    /\ staticParams = [page \in Pages |-> [pc |-> "start"]]
    /\ RIdle /\ HIdle /\ LIdle /\ AIdle

\* getPosts: readdir, the directories, Promise.all of the reads of their
\* index.md (rejected when one read is), matter, the sort; an error is
\* logged and thrown again
GetPosts ==
    /\ listing.pc = "start"
    /\ LET dirs == Directories(dirents)
       IN IF \E i \in DOMAIN dirs : ~readFile([d \in {i} |-> dirs[i].index], i).ok
          THEN listing' = [pc |-> "failed", error |-> Err("ENOENT")]
          ELSE \E sorted \in SortOutcomes(
                      [i \in DOMAIN dirs |->
                          Post(dirs[i].name, matter(dirs[i].index).data)]) :
                  listing' = [pc |-> "done", posts |-> sorted]
    /\ UNCHANGED <<dirents, staticParams>>

\* generateStaticParams: the page with the table of contents keeps the
\* directories whose index.md it can read, the page with live code blocks
\* returns every directory
GenerateStaticParams(page) ==
    /\ staticParams[page].pc = "start"
    /\ LET dirs == Directories(dirents)
       IN staticParams' =
            [staticParams EXCEPT ![page] =
                [pc |-> "done",
                 slugs |-> IF page = "toc" THEN NamesOf(WithIndex(dirs))
                           ELSE NamesOf(dirs)]]
    /\ UNCHANGED <<dirents, listing>>

NextPosts ==
    \/ GetPosts /\ UNCHANGED <<hvars, rvars, lvars, avars>>
    \/ \E page \in Pages :
          GenerateStaticParams(page) /\ UNCHANGED <<hvars, rvars, lvars, avars>>

SpecPosts == InitPosts /\ [][NextPosts]_vars

(***************************************************************************)
(* Link: the anchor it renders and its click handler.                      *)
(***************************************************************************)
\* the target prop and the target attribute: not given, or a string
NoTarget == [present |-> FALSE, value |-> ""]
Target(value) == [present |-> TRUE, value |-> value]

\* the truth value JavaScript gives a target: undefined, null and '' are
\* falsy
Truthy(target) == target.present /\ target.value # ""

Targets == {NoTarget, Target(""), Target("_self"), Target("_blank"), Target("side")}

\* hrefs: '/p', 'h://x', '#i'
Hrefs == { <<"/", "p">>, <<"h", ":", "/", "/", "x">>, <<"#", "i">> }

\* href.startsWith('/')
StartsWithSlash(href) == Len(href) > 0 /\ href[1] = "/"

\* the href property of the anchor element: the URL the attribute resolves
\* to against the page 'h://o/q'
DomHref(href) ==
    IF StartsWithSlash(href) THEN <<"h", ":", "/", "/", "o">> \o href
    ELSE IF Len(href) > 0 /\ href[1] = "#"
         THEN <<"h", ":", "/", "/", "o", "/", "q">> \o href
    ELSE href

\* if (!target && !href.startsWith('/')) target = '_blank';
\* <NextLink {...rest} target={target} href={href} onClick=... />
RenderedAnchor(props) ==
    [target |-> IF ~Truthy(props.target) /\ ~StartsWithSlash(props.href)
                THEN Target("_blank")
                ELSE props.target,
     href |-> DomHref(props.href)]

Buttons == {1, 2, 3}

\* the click events on the anchor
ClickEvents(currentTarget) ==
    [currentTarget : {currentTarget},
     metaKey : BOOLEAN, ctrlKey : BOOLEAN, shiftKey : BOOLEAN, altKey : BOOLEAN,
     which : Buttons]

\* the same without the test of the middle button
isModifiedEventNoMiddleButton(event) ==
    LET target == event.currentTarget.target
    IN \/ (Truthy(target) /\ target.value # "_self")
       \/ event.metaKey
       \/ event.ctrlKey
       \/ event.shiftKey
       \/ event.altKey

isModifiedEvent(event) ==
    LET target == event.currentTarget.target
    IN \/ (Truthy(target) /\ target.value # "_self")
       \/ event.metaKey
       \/ event.ctrlKey
       \/ event.shiftKey
       \/ event.altKey
       \/ event.which = 2

InitLink ==
    /\ \E href \in Hrefs, target \in Targets :
          linkProps = [href |-> href, target |-> target]
    /\ anchor = Unset
    /\ click = Unset
    /\ RIdle /\ HIdle /\ PIdle /\ AIdle

\* Link is rendered
RenderLink ==
    /\ anchor = Unset
    /\ anchor' = RenderedAnchor(linkProps)
    /\ UNCHANGED <<linkProps, click>>

\* onClick: if (!isModifiedEvent(e)) { e.preventDefault();
\* trackNavigation(() => { router.push(e.currentTarget.href) }) }
Click ==
    /\ anchor # Unset
    /\ \E e \in ClickEvents(anchor) :
          click' = IF ~isModifiedEvent(e)
                   THEN [event |-> e, defaultPrevented |-> TRUE,
                         pushed |-> <<e.currentTarget.href>>]
                   ELSE [event |-> e, defaultPrevented |-> FALSE, pushed |-> <<>>]
    /\ UNCHANGED <<linkProps, anchor>>

NextLink ==
    \/ RenderLink /\ UNCHANGED <<hvars, rvars, pvars, avars>>
    \/ Click /\ UNCHANGED <<hvars, rvars, pvars, avars>>

SpecLink == InitLink /\ [][NextLink]_vars

(***************************************************************************)
(* AutoRefresh: the component the module exports, mounted around the page. *)
(***************************************************************************)
NodeEnvs == {"development", "production", "test"}

\* The module body: the function declaration AutoRefresh, which returns
\* its children, is the binding of the module scope; under development the
\* if block declares a const of the same name for the component with the
\* WebSocket, a binding of that block only; export default AutoRefresh
\* is resolved in the module scope.
AutoRefreshModule(nodeEnv) ==
    LET moduleScope == [AutoRefresh |-> "children"]
        blockScope == IF nodeEnv = "development"
                      THEN [AutoRefresh |-> "socket"]
                      ELSE [none |-> TRUE]
    IN [default |-> moduleScope.AutoRefresh, block |-> blockScope]

\* what the server on ws://localhost:3001 can send
MessageData == {"refresh", "ping", ""}

InitRefresh ==
    /\ env \in NodeEnvs
    /\ exported = AutoRefreshModule(env).default
    /\ mounted = FALSE
    /\ ws = "none"
    /\ messages = <<>>
    /\ reloads = 0
    /\ RIdle /\ HIdle /\ PIdle /\ LIdle

\* RootLayout renders <AutoRefresh>: the effect of the component with the
\* WebSocket opens it, the other component only returns its children
Mount ==
    /\ ~mounted
    /\ mounted' = TRUE
    /\ ws' = IF exported = "socket" THEN "open" ELSE ws
    /\ UNCHANGED <<env, exported, messages, reloads>>

\* the server sends a message: ws.onmessage reloads on 'refresh'
Message ==
    /\ Len(messages) < MaxMessages
    /\ \E data \in MessageData :
          /\ messages' = Append(messages, [data |-> data, mounted |-> mounted])
          /\ reloads' = IF ws = "open" /\ data = "refresh"
                        THEN reloads + 1 ELSE reloads
    /\ UNCHANGED <<env, exported, mounted, ws>>

\* the cleanup of the effect: ws.close()
Unmount ==
    /\ mounted
    /\ mounted' = FALSE
    /\ ws' = IF ws = "open" THEN "closed" ELSE ws
    /\ UNCHANGED <<env, exported, messages, reloads>>

NextRefresh ==
    \/ Mount /\ UNCHANGED <<hvars, rvars, pvars, lvars>>
    \/ Message /\ UNCHANGED <<hvars, rvars, pvars, lvars>>
    \/ Unmount /\ UNCHANGED <<hvars, rvars, pvars, lvars>>

SpecRefresh == InitRefresh /\ [][NextRefresh]_vars

(***************************************************************************)
(* Properties of the heading extraction (SpecHeadings).                    *)
(***************************************************************************)
\* the number of lines up to line i that satisfy P
CountUpTo(P(_), i) == Cardinality({j \in 1..i : P(hLines[j])})

\* a line that starts with a heading marker of depth 2 or 3
IsTocLine(line) ==
    /\ LeadingHashes(line) \in {2, 3}
    /\ Len(line) > LeadingHashes(line)
    /\ line[LeadingHashes(line) + 1] = " "

TocIndex(i) == CountUpTo(IsTocLine, i)

\* line i lies inside a fenced code block
InFence(i) == CountUpTo(IsFence, i - 1) % 2 = 1

\* line i is rendered as an h1..h4 element of the body
IsBodyHeading(i) ==
    ~IsFence(hLines[i]) /\ ~InFence(i) /\ AtxDepth(hLines[i]) \in 1..4

BodyIndex(i) == Cardinality({j \in 1..i : IsBodyHeading(j)})

\* C1: the anchor ids of the heading records of one document are pairwise
\* distinct, also when several headings normalize to the same slug.
C1_AnchorIdsDistinct ==
    hpc # "start" =>
        \A i, j \in DOMAIN hHeadings :
            i # j => hHeadings[i].id # hHeadings[j].id

\* the n-th heading of the document with the slug of heading i
Occurrence(i) ==
    Cardinality({j \in 1..i : Slugify(hHeadings[j].text) = Slugify(hHeadings[i].text)})

DigitChar(n) == <<"0", "1", "2", "3", "4", "5", "6", "7", "8", "9">>[n + 1]

\* C2: the first heading with slug s gets the anchor s, the n-th one
\* (n >= 2) gets s followed by '-n'.
C2_CollidingSlugsAreSuffixed ==
    hpc # "start" =>
        \A i \in DOMAIN hHeadings :
            hHeadings[i].id =
                IF Occurrence(i) = 1 THEN Slugify(hHeadings[i].text)
                ELSE Slugify(hHeadings[i].text) \o <<"-", DigitChar(Occurrence(i))>>

\* C3: for every level-2 or level-3 heading, the anchor of its table of
\* contents entry equals the id rendered on the heading element of the body.
C3_TocAnchorEqualsBodyId ==
    hpc = "done" =>
        \A i \in DOMAIN hLines :
            (IsTocLine(hLines[i]) /\ IsBodyHeading(i)) =>
                /\ TocIndex(i) \in DOMAIN hHeadings
                /\ BodyIndex(i) \in DOMAIN hBody
                /\ hHeadings[TocIndex(i)].id = hBody[BodyIndex(i)].id

\* C4: there is one record for exactly the lines that start with a marker
\* of depth 2 or 3, in document order, with the marker depth as level and
\* the rest of the line as text; a depth-1 or depth-4 line gives no record.
C4_RecordsAreDepth2And3Lines ==
    hpc # "start" =>
        /\ Len(hHeadings) = TocIndex(Len(hLines))
        /\ \A i \in DOMAIN hLines :
              IsTocLine(hLines[i]) =>
                  /\ hHeadings[TocIndex(i)].depth = LeadingHashes(hLines[i])
                  /\ hHeadings[TocIndex(i)].depth \in {2, 3}
                  /\ hHeadings[TocIndex(i)].text =
                        SubSeq(hLines[i], LeadingHashes(hLines[i]) + 2, Len(hLines[i]))

\* a body with a depth-2 or depth-3 heading next to a depth-4 one has been
\* scanned and gave one record
C4_Witness ==
    /\ hpc # "start"
    /\ Len(hHeadings) = 1
    /\ \E i \in DOMAIN hLines : LeadingHashes(hLines[i]) = 4

(***************************************************************************)
(* Properties of the render (Spec).                                        *)
(***************************************************************************)
Rendered(r) == renders[r].pc \in {"assembled", "done"}

\* C5: a document whose front matter lacks title or date is never rendered
\* (its render fails with MalformedFrontMatter).
C5_MissingKeyNeverRendered ==
    \A r \in Renders :
        Rendered(r) => {"title", "date"} \subseteq DOMAIN renders[r].data

\* C6: a document whose date cannot be parsed as a calendar date is never
\* rendered (its render fails with InvalidDate).
C6_InvalidDateNeverRendered ==
    \A r \in Renders :
        (Rendered(r) /\ "date" \in DOMAIN renders[r].data) =>
            /\ IsValidDate(renders[r].data["date"])
            /\ renders[r].date # InvalidDateText

\* C7: a request for an identifier without a file fails with the not-found
\* error of the read, before the components are imported, the front matter
\* is split, the headings are extracted or the body is rendered.
C7_MissingFileAbortsFirst ==
    \A r \in Renders :
        (renders[r].pc # "idle" /\ ~store[renders[r].slug].exists) =>
            /\ renders[r].pc \in {"reading", "failed"}
            /\ renders[r].pc = "failed" => renders[r].error = Err("ENOENT")
            /\ renders[r].file = Unset
            /\ renders[r].postComponents = Unset
            /\ renders[r].content = Unset
            /\ renders[r].data = Unset
            /\ renders[r].headings = Unset
            /\ renders[r].components = Unset
            /\ renders[r].body = Unset
            /\ renders[r].parsed = Unset
            /\ renders[r].ran = Unset

C7_Witness ==
    \E r \in Renders :
        /\ renders[r].pc = "failed"
        /\ ~store[renders[r].slug].exists

NoOverrides(r) ==
    /\ renders[r].pc # "idle"
    /\ store[renders[r].slug].exists
    /\ modules[renders[r].slug] = Throws(Err("MODULE_NOT_FOUND"))

\* C8: when no components module exists for the identifier the render does
\* not fail, the override set is empty and the document is rendered with
\* exactly the default components.
C8_NoOverridesIsNotAnError ==
    \A r \in Renders :
        NoOverrides(r) =>
            /\ renders[r].pc # "failed"
            /\ renders[r].pc \in {"imported", "extracted", "assembled", "done"}
                  => renders[r].postComponents = EmptyMap
            /\ Rendered(r) => renders[r].components = Defaults(renders[r].page)

C8_Witness ==
    \E r \in Renders :
        /\ NoOverrides(r)
        /\ renders[r].pc = "done"
        /\ renders[r].components = Defaults(renders[r].page)

\* C9: a name defined both by the document's components and by the
\* defaults resolves to the document's component, a name defined only by
\* the defaults resolves to the default.
DocumentOverrides(slug) ==
    IF modules[slug].kind = "module" THEN modules[slug].exports ELSE EmptyMap

C9_OverridesTakePrecedence ==
    \A r \in Renders :
        Rendered(r) =>
            \A k \in DOMAIN Defaults(renders[r].page) :
                /\ k \in DOMAIN renders[r].components
                /\ renders[r].components[k] =
                      IF k \in DOMAIN DocumentOverrides(renders[r].slug)
                      THEN DocumentOverrides(renders[r].slug)[k]
                      ELSE Defaults(renders[r].page)[k]

C9_Witness ==
    \E r \in Renders :
        /\ renders[r].pc = "done"
        /\ \E k \in DOMAIN Defaults(renders[r].page) :
              /\ k \in DOMAIN DocumentOverrides(renders[r].slug)
              /\ renders[r].components[k] # Defaults(renders[r].page)[k]

(***************************************************************************)
(* Properties of the transform stages (Spec).                              *)
(***************************************************************************)
StageNames(ran) == [k \in DOMAIN ran |-> ran[k].stage]

\* each stage received the output of the stage before it: the first one
\* the parsed body, and the rendered tree is the output of the last one
Chained(r) ==
    /\ Len(renders[r].ran) > 0
    /\ renders[r].ran[1].input = renders[r].parsed
    /\ \A k \in 1..(Len(renders[r].ran) - 1) :
          renders[r].ran[k + 1].input = renders[r].ran[k].output
    /\ renders[r].tree = renders[r].ran[Len(renders[r].ran)].output

\* C11 as stated: the stages run in the order typographic normalization,
\* math rendering, code highlighting, code evaluation, each on the output
\* of the stage before it.
C11_EvaluationRunsLast ==
    \A r \in Renders :
        renders[r].pc = "done" =>
            /\ StageNames(renders[r].ran) =
                  <<"remarkSmartpants", "rehypeKatex", "rehypePrettyCode",
                    "remarkMdxEvalCodeBlock">>
            /\ Chained(r)

\* C11 as amended: the stages run in the order typographic normalization,
\* code evaluation (on the page that configures it), math rendering, code
\* highlighting, each on the output of the stage before it.
C11_StagesRunInPluginOrder ==
    \A r \in Renders :
        renders[r].pc = "done" =>
            /\ StageNames(renders[r].ran) =
                  IF renders[r].page = "eval"
                  THEN <<"remarkSmartpants", "remarkMdxEvalCodeBlock",
                         "rehypeKatex", "rehypePrettyCode">>
                  ELSE <<"remarkSmartpants", "rehypeKatex", "rehypePrettyCode">>
            /\ Chained(r)

\* a page with live code blocks was rendered and the typography,
\* evaluation and highlighting stages each changed the tree
C11_Witness ==
    \E r \in Renders :
        /\ renders[r].pc = "done"
        /\ renders[r].page = "eval"
        /\ Len(renders[r].ran) = 4
        /\ \A k \in {1, 2, 4} : renders[r].ran[k].output # renders[r].ran[k].input

ThrowingBlock(node) == IsLive(node) /\ EvalThrows(node.value)

\* node i of the parsed body, taken through the stages on its own
AloneThroughStages(r, i) ==
    FinalTree(<<renders[r].parsed[i]>>,
              RunPipeline(Plugins(renders[r].page), <<renders[r].parsed[i]>>,
                          overnight))[1]

\* C12: a live code block whose evaluation throws does not abort the
\* render: the block is rendered as the static code block with an error
\* marker, every other node as it is rendered without the failing block.
C12_ThrowingBlockDegrades ==
    \A r \in Renders :
        /\ renders[r].pc = "failed" =>
              \/ ~store[renders[r].slug].exists
              \/ modules[renders[r].slug].kind = "throw"
        /\ (renders[r].pc = "done" /\ renders[r].page = "eval") =>
              /\ Len(renders[r].tree) = Len(renders[r].parsed)
              /\ \A i \in DOMAIN renders[r].parsed :
                    IF ThrowingBlock(renders[r].parsed[i])
                    THEN /\ renders[r].tree[i].kind = "code"
                         /\ renders[r].tree[i].value = renders[r].parsed[i].value
                         /\ "error" \in renders[r].tree[i].marks
                    ELSE /\ renders[r].tree[i] = AloneThroughStages(r, i)
                         /\ "error" \notin renders[r].tree[i].marks

C12_Witness ==
    \E r \in Renders :
        /\ renders[r].pc = "done"
        /\ renders[r].page = "eval"
        /\ \E i, j \in DOMAIN renders[r].parsed :
              /\ ThrowingBlock(renders[r].parsed[i])
              /\ "error" \in renders[r].tree[i].marks
              /\ renders[r].parsed[j].kind = "code"
              /\ "highlighted" \in renders[r].tree[j].marks
              /\ "error" \notin renders[r].tree[j].marks

Finished(r) == renders[r].pc \in {"done", "failed"}

\* what a finished render hands to the caller
Result(r) ==
    [pc |-> renders[r].pc, error |-> renders[r].error,
     title |-> renders[r].title, date |-> renders[r].date,
     headings |-> renders[r].headings, body |-> renders[r].body,
     tree |-> renders[r].tree, components |-> renders[r].components]

HadError(q) ==
    \/ renders[q].pc = "failed"
    \/ /\ renders[q].pc = "done"
       /\ \E i \in DOMAIN renders[q].tree : "error" \in renders[q].tree[i].marks

\* the result of rendering slug on page with no other render running
AloneResult(slug, page) ==
    LET post == DocumentOverrides(slug)
        m == matter(store[slug])
        parsed == ParseBody(m.content)
    IN [pc |-> "done", error |-> Unset,
        title |-> Get(m.data, "title"),
        date |-> toLocaleDateString(Get(m.data, "date")),
        headings |-> IF page = "toc" THEN getHeadings(m.content) ELSE Unset,
        body |-> IF page = "toc" THEN BodyHeadings(m.content) ELSE <<>>,
        tree |-> FinalTree(parsed, RunPipeline(Plugins(page), parsed, OvernightAtLoad)),
        components |-> [k \in DOMAIN Defaults(page) \cup DOMAIN post |->
                           IF k \in DOMAIN post THEN post[k] ELSE Defaults(page)[k]]]

\* C15: when another render has failed (missing file, failing import) or
\* met a node-level error, a render that completes has the result it has
\* when it runs alone, in every interleaving.
C15_FailureLeavesOthersAlone ==
    \A r, q \in Renders :
        (r # q /\ HadError(q) /\ renders[r].pc = "done") =>
            Result(r) = AloneResult(renders[r].slug, renders[r].page)

C15_Witness ==
    \E r, q \in Renders :
        /\ r # q
        /\ renders[q].pc = "failed"
        /\ renders[q].error # Err("ENOENT")
        /\ renders[r].pc = "done"
        /\ renders[r].components # Defaults(renders[r].page)

(***************************************************************************)
(* Properties of the stage selection, the default components and the       *)
(* import of the components module (Spec).                                 *)
(***************************************************************************)
AllStages ==
    {"remarkSmartpants", "remarkMdxEvalCodeBlock", "rehypeKatex", "rehypePrettyCode"}

\* the stage names of s without stage x, in the order of s
RECURSIVE Without(_, _)
Without(s, x) ==
    IF Len(s) = 0 THEN <<>>
    ELSE IF s[1] = x THEN Without(Tail(s), x)
    ELSE <<s[1]>> \o Without(Tail(s), x)

\* the stages the document of render r goes through on page p
StagesOn(r, p) == StageNames(RunPipeline(Plugins(p), renders[r].parsed, overnight))

\* C21 as stated: every stage can be switched off on its own: for each
\* stage of a render there is a configuration under which the same document
\* goes through the other stages, in the same relative order, and not
\* through that one.
C21_EachStageCanBeSwitchedOff ==
    \A r \in Renders :
        renders[r].pc = "done" =>
            \A k \in DOMAIN renders[r].ran :
                \E p \in Pages :
                    StagesOn(r, p) =
                        Without(StageNames(renders[r].ran), renders[r].ran[k].stage)

\* the place of a stage in the order typography, evaluation, math,
\* highlighting
StageRank(stage) ==
    CASE stage = "remarkSmartpants" -> 1
      [] stage = "remarkMdxEvalCodeBlock" -> 2
      [] stage = "rehypeKatex" -> 3
      [] stage = "rehypePrettyCode" -> 4

\* C21 as amended: only the evaluation stage can be left out (it is absent
\* from the plugin list of one page); with or without it the stages that
\* run keep the relative order typography, evaluation, math, highlighting,
\* and each stage receives the output of the enabled stage before it.
C21_EnabledStagesKeepOrder ==
    \A r \in Renders :
        renders[r].pc = "done" =>
            LET names == StageNames(renders[r].ran)
            IN /\ \A i, j \in DOMAIN names :
                     i < j => StageRank(names[i]) < StageRank(names[j])
               /\ AllStages \ {names[k] : k \in DOMAIN names}
                     \subseteq {"remarkMdxEvalCodeBlock"}
               /\ \A p \in Pages :
                     Without(StagesOn(r, p), "remarkMdxEvalCodeBlock")
                        = Without(names, "remarkMdxEvalCodeBlock")
               /\ Chained(r)

\* the same document was rendered with the evaluation stage and without it
C21_Witness ==
    \E r, q \in Renders :
        /\ renders[r].pc = "done" /\ renders[q].pc = "done"
        /\ renders[r].slug = renders[q].slug
        /\ "remarkMdxEvalCodeBlock" \in {renders[r].ran[k].stage : k \in DOMAIN renders[r].ran}
        /\ "remarkMdxEvalCodeBlock" \notin {renders[q].ran[k].stage : k \in DOMAIN renders[q].ran}
        /\ Len(renders[q].ran) = 3
        /\ renders[r].tree # renders[q].tree

\* C22: the default component mapping of the process has the keys and
\* values it had at startup, before and after every render and whatever the
\* overrides of the rendered documents are.
C22_DefaultsNeverWritten ==
    \A page \in Pages :
        /\ DOMAIN defaultComponents[page] = DOMAIN DefaultComponentsAtLoad[page]
        /\ \A k \in DOMAIN DefaultComponentsAtLoad[page] :
              defaultComponents[page][k] = DefaultComponentsAtLoad[page][k]

\* two documents with different overrides of a default name were rendered
C22_Witness ==
    \E r, q \in Renders :
        /\ renders[r].pc = "done" /\ renders[q].pc = "done"
        /\ renders[r].page = renders[q].page
        /\ \E k \in DOMAIN Defaults(renders[r].page) :
              /\ k \in DOMAIN renders[r].postComponents
              /\ k \in DOMAIN renders[q].postComponents
              /\ renders[r].components[k] # renders[q].components[k]
              /\ renders[r].components[k] # Defaults(renders[r].page)[k]
        /\ defaultComponents = DefaultComponentsAtLoad

\* the import of the components module of r throws something other than a
\* MODULE_NOT_FOUND error
FailingImport(r) ==
    /\ renders[r].pc # "idle"
    /\ store[renders[r].slug].exists
    /\ modules[renders[r].slug].kind = "throw"
    /\ modules[renders[r].slug].e # Err("MODULE_NOT_FOUND")

\* C27: when the import of the components module fails with anything but
\* MODULE_NOT_FOUND (another code, an error without a code, a thrown null),
\* the render fails with that error and produces no document; only the
\* not-found error is swallowed.
C27_OtherImportErrorsAbort ==
    \A r \in Renders :
        /\ FailingImport(r) =>
              /\ renders[r].pc \in {"reading", "importing", "failed"}
              /\ renders[r].pc = "failed" =>
                    renders[r].error = modules[renders[r].slug].e
              /\ renders[r].content = Unset
              /\ renders[r].data = Unset
              /\ renders[r].components = Unset
              /\ renders[r].body = Unset
              /\ renders[r].tree = Unset
        /\ (/\ renders[r].pc \in {"imported", "extracted", "assembled", "done"}
            /\ modules[renders[r].slug].kind = "throw") =>
              modules[renders[r].slug].e = Err("MODULE_NOT_FOUND")

\* a render failed on an import error that carries no code
C27_Witness ==
    \E r \in Renders :
        /\ FailingImport(r)
        /\ renders[r].pc = "failed"
        /\ renders[r].error = Err("undefined")

(***************************************************************************)
(* Properties of the slug and the heading text (SpecHeadings).             *)
(***************************************************************************)
\* C18: no anchor begins or ends with the separator '-'.
C18_AnchorHasNoOuterSeparator ==
    hpc # "start" =>
        \A i \in DOMAIN hHeadings :
            Len(hHeadings[i].id) > 0 =>
                /\ hHeadings[i].id[1] # "-"
                /\ hHeadings[i].id[Len(hHeadings[i].id)] # "-"

\* C19: the text of a heading record is the line without its marker and
\* without leading or trailing whitespace.
C19_TextIsTrimmed ==
    hpc # "start" =>
        \A i \in DOMAIN hLines :
            IsTocLine(hLines[i]) =>
                hHeadings[TocIndex(i)].text =
                    Trim(SubSeq(hLines[i], LeadingHashes(hLines[i]) + 1, Len(hLines[i])))

\* the children of heading line i before typographic normalization
RawChildren(i) ==
    RawInlineChildren(Trim(SubSeq(hLines[i], AtxDepth(hLines[i]) + 1, Len(hLines[i]))))

\* C20: the anchor rendered on a heading, computed from its children after
\* typographic normalization, is the anchor computed from its raw children.
C20_TypographyKeepsAnchor ==
    hpc = "done" =>
        \A i \in DOMAIN hLines :
            IsBodyHeading(i) =>
                hBody[BodyIndex(i)].id = CustomHeadingId(RawChildren(i))

\* a heading whose text the normalization changed has been rendered
C20_Witness ==
    /\ hpc = "done"
    /\ \E i \in DOMAIN hLines :
          /\ IsBodyHeading(i)
          /\ Educate(RawChildren(i)) # RawChildren(i)
          /\ hBody[BodyIndex(i)].id = CustomHeadingId(RawChildren(i))

\* the number of depth-2 and depth-3 heading lines outside fenced code
\* blocks up to line i
UnfencedTocIndex(i) ==
    Cardinality({j \in 1..i : IsTocLine(hLines[j]) /\ IsBodyHeading(j)})

\* C26: every table-of-contents entry is for a heading element rendered in
\* the body: the entries are those of the depth-2 and depth-3 heading lines
\* outside fenced code blocks, a matching line inside a fence gives none.
C26_NoEntryForFencedLine ==
    hpc = "done" =>
        /\ Len(hHeadings) = UnfencedTocIndex(Len(hLines))
        /\ Len(hHeadings) <= Len(hBody)
        /\ \A i \in DOMAIN hLines :
              (IsTocLine(hLines[i]) /\ IsBodyHeading(i)) =>
                  hHeadings[UnfencedTocIndex(i)].text =
                      SubSeq(hLines[i], LeadingHashes(hLines[i]) + 2, Len(hLines[i]))

(***************************************************************************)
(* Properties of the document loader (SpecLoader).                         *)
(***************************************************************************)
HasTraversalSegment(slug) ==
    \E k \in DOMAIN SplitPath(slug) : SplitPath(slug)[k] = <<".", ".">>

\* C23: no file outside ./public/ is ever read: a request whose identifier
\* has a '..' segment is rejected before the file is read, before its
\* metadata is read and before its components module is imported.
C23_TraversalRejectedBeforeRead ==
    \A r \in Renders :
        /\ (renders[r].pc # "idle" /\ HasTraversalSegment(renders[r].slug)) =>
              /\ renders[r].file = Unset
              /\ renders[r].postComponents = Unset
              /\ renders[r].pc = "failed" => renders[r].error # Err("ENOENT")
              /\ \/ renders[r].metadata = Unset
                 \/ /\ "error" \in DOMAIN renders[r].metadata
                    /\ renders[r].metadata.error # Err("ENOENT")
        /\ (renders[r].pc # "idle" /\ renders[r].file # Unset) =>
              InsideRoot(ResolvePath(Filename(renders[r].slug)))

(***************************************************************************)
(* Properties of the home page (SpecPosts).                                *)
(***************************************************************************)
\* C24: getPosts returns the posts newest first: no post comes before a
\* post with a later parsed date, also among posts with equal, missing or
\* unparsable dates.
C24_PostsNewestFirst ==
    listing.pc = "done" =>
        \A i, j \in DOMAIN listing.posts :
            i < j => ~LessThan(DateParse(listing.posts[i].date),
                               DateParse(listing.posts[j].date))

Range(seq) == {seq[i] : i \in DOMAIN seq}

\* C25: the slugs getPosts lists are the slugs generateStaticParams
\* returns, namely the directories with a readable index.md, and a
\* directory without one makes neither of them fail.
C25_ListedSlugsAreGeneratedSlugs ==
    \A page \in Pages :
        (listing.pc # "start" /\ staticParams[page].pc = "done") =>
            /\ listing.pc = "done"
            /\ Range(staticParams[page].slugs)
                  = Range(NamesOf(WithIndex(Directories(dirents))))
            /\ {listing.posts[i].slug : i \in DOMAIN listing.posts}
                  = Range(staticParams[page].slugs)

(***************************************************************************)
(* Properties of Link (SpecLink).                                          *)
(***************************************************************************)
\* the click was taken over: the default was prevented and router.push was
\* called once, with the href of the anchor
Intercepted == click.defaultPrevented /\ click.pushed = <<anchor.href>>

\* C28: a click is intercepted exactly when no modifier key is held, the
\* button is not the middle one and the anchor's target is absent (or
\* empty) or '_self'; otherwise nothing is prevented or pushed; a Link with
\* an href that does not start with '/' and no target of its own gets the
\* target '_blank' and is never intercepted.
C28_InterceptedIffPlainClick ==
    click # Unset =>
        /\ Intercepted <=>
              /\ ~click.event.metaKey /\ ~click.event.ctrlKey
              /\ ~click.event.shiftKey /\ ~click.event.altKey
              /\ click.event.which # 2
              /\ (~Truthy(anchor.target) \/ anchor.target.value = "_self")
        /\ ~Intercepted => (~click.defaultPrevented /\ click.pushed = <<>>)
        /\ (~StartsWithSlash(linkProps.href) /\ ~Truthy(linkProps.target)) =>
              (anchor.target = Target("_blank") /\ ~Intercepted)

\* a plain click on a link to a post was intercepted
C28_Witness ==
    /\ click # Unset
    /\ Intercepted
    /\ StartsWithSlash(linkProps.href)
    /\ linkProps.target = NoTarget
    /\ click.event.which = 1

(***************************************************************************)
(* Properties of AutoRefresh (SpecRefresh).                                *)
(***************************************************************************)
\* C29: under development the exported component has a WebSocket open
\* while it is mounted, has reloaded once for every 'refresh' message sent
\* while it was mounted and for no other message, and has closed the socket
\* once unmounted; outside development it opens no socket and never
\* reloads.
C29_DevelopmentOpensSocket ==
    /\ env = "development" =>
          /\ mounted => ws = "open"
          /\ ~mounted => ws \in {"none", "closed"}
          /\ reloads = Cardinality({i \in DOMAIN messages :
                            messages[i].mounted /\ messages[i].data = "refresh"})
    /\ env # "development" => (ws = "none" /\ reloads = 0)

====
